---- MODULE Spec2Model ----
(***************************************************************************)
(* Model of the MAMP MySQL MCP server (src/src/index.ts).                  *)
(*                                                                         *)
(*   Spec          request handlers over the connection pool               *)
(*                 (list-resources, read-resource, call-tool, executeQuery,*)
(*                 executeReadOnlyQuery)                                   *)
(*   SpecCall      the call-tool handler alone over all its inputs         *)
(*   SpecStartup   environment validation, constructor, run                *)
(*   SpecShutdown  SIGINT / SIGTERM handlers and shutdown                  *)
(*                                                                         *)
(* Strings that the code inspects character by character (the sql argument,*)
(* MYSQL_PORT, MYSQL_POOL_LIMIT) are sequences of one-character strings.   *)
(* Statement texts written by the adapter are one-token sequences.         *)
(***************************************************************************)
EXTENDS Integers, Sequences, FiniteSets, TLC

VARIABLES req, conn, env, boot, sig

vars == <<req, conn, env, boot, sig>>

(* ---------------------------------------------------------------------- *)
(* Bounds                                                                  *)
(* ---------------------------------------------------------------------- *)
MaxReq == 2
PoolLimit == 1
MaxSignals == 3
MaxServed == 1

Requests == 1..MaxReq
Conns == 1..PoolLimit

(* ---------------------------------------------------------------------- *)
(* String functions used by the call-tool handler                          *)
(* ---------------------------------------------------------------------- *)
WhiteSpace == {" ", "\t", "\n"}

Lower(c) ==
  CASE c = "S" -> "s" [] c = "E" -> "e" [] c = "L" -> "l"
    [] c = "C" -> "c" [] c = "T" -> "t" [] c = "D" -> "d"
    [] c = "X" -> "x" [] OTHER -> c

toLowerCase(s) == [i \in 1..Len(s) |-> Lower(s[i])]

trim(s) ==
  LET keep == {i \in 1..Len(s) : s[i] \notin WhiteSpace}
  IN  IF keep = {} THEN <<>>
      ELSE LET first == CHOOSE i \in keep : \A j \in keep : i <= j
               last  == CHOOSE i \in keep : \A j \in keep : j <= i
           IN  SubSeq(s, first, last)

includes(s, p) ==
  \E k \in 0..(Len(s) - Len(p)) : SubSeq(s, k + 1, k + Len(p)) = p

startsWith(s, p) ==
  Len(s) >= Len(p) /\ SubSeq(s, 1, Len(p)) = p

SELECT == <<"s", "e", "l", "e", "c", "t">>

(* ---------------------------------------------------------------------- *)
(* Statements written by the adapter                                       *)
(* ---------------------------------------------------------------------- *)
SetReadOnlySql == <<"SET SESSION TRANSACTION READ ONLY">>
SetReadWriteSql == <<"SET SESSION TRANSACTION READ WRITE">>
BeginSql == <<"START TRANSACTION">>
RollbackSql == <<"ROLLBACK">>
ListTablesSql ==
  <<"SELECT TABLE_NAME FROM information_schema.tables WHERE table_schema = ?">>
ListColumnsSql ==
  <<"SELECT COLUMN_NAME, DATA_TYPE FROM information_schema.columns WHERE table_schema = ? AND table_name = ?">>
MYSQL_DB == "db"

(* ---------------------------------------------------------------------- *)
(* Inputs                                                                  *)
(* ---------------------------------------------------------------------- *)
StrArg(s) == [tag |-> "object", sqlType |-> "string", sqlVal |-> s]

SqlInputs ==
  { <<"s", "e", "l", "e", "c", "t", " ", "1">>,
    <<" ", "S", "e", "L", "E", "c", "T", "\n">>,
    <<"\t", "S", "E", "L", "E", "C", "T", "x">>,
    <<"d", "e", "l", "e", "t", "e">>,
    <<>>,
    <<" ", "\n">>,
    <<"s", "e", "l", "e", "c">>,
    <<"x", "s", "e", "l", "e", "c", "t">>,
    <<"s", " ", "e", "l", "e", "c", "t">> }

ArgInputs ==
  { [tag |-> "undefined", sqlType |-> "undefined", sqlVal |-> <<>>],
    [tag |-> "null", sqlType |-> "undefined", sqlVal |-> <<>>],
    [tag |-> "object", sqlType |-> "undefined", sqlVal |-> <<>>],
    [tag |-> "object", sqlType |-> "number", sqlVal |-> <<>>] }
  \cup { StrArg(s) : s \in SqlInputs }

NameInputs == {"mysql_query", "other_tool"}

\* the call-tool requests of the concurrent specification
CallInputs ==
  { [name |-> "mysql_query", args |-> StrArg(<<"s", "e", "l", "e", "c", "t", " ", "1">>)],
    [name |-> "mysql_query", args |-> StrArg(<<"d", "e", "l", "e", "t", "e">>)],
    [name |-> "other_tool",
     args |-> [tag |-> "undefined", sqlType |-> "undefined", sqlVal |-> <<>>]] }

\* a uri is either rejected by the URL parser or yields a pathname, held here
\* as the result of pathname.split('/')
UriInputs ==
  { [valid |-> FALSE, path |-> <<"">>],
    [valid |-> TRUE, path |-> <<"", "orders", "schema">>],
    [valid |-> TRUE, path |-> <<"", "orders">>] }

NoArgs == [tag |-> "undefined", sqlType |-> "undefined", sqlVal |-> <<>>]
NoUri == [valid |-> FALSE, path |-> <<"">>]

(* ---------------------------------------------------------------------- *)
(* Responses                                                               *)
(* ---------------------------------------------------------------------- *)
NoResult == [fault |-> "pending", message |-> "", isError |-> FALSE, content |-> <<>>]

McpError(code) == [fault |-> code, message |-> code, isError |-> FALSE, content |-> <<>>]

\* an error thrown out of a handler reaches the transport as a fault
Thrown(err) == [fault |-> "Error", message |-> err, isError |-> FALSE, content |-> <<>>]

ToolSuccess ==
  [fault |-> "none", message |-> "", isError |-> FALSE,
   content |-> << [type |-> "text", text |-> <<"JSON", "rows">>] >>]

ToolErrorRethrow(err) == Thrown(err)

ToolError(err) ==
  [fault |-> "none", message |-> "", isError |-> TRUE,
   content |-> << [type |-> "text", text |-> <<"MySQL query error: ", err>>] >>]

ResourceResponse ==
  [fault |-> "none", message |-> "", isError |-> FALSE,
   content |-> << [type |-> "json", text |-> <<"JSON", "rows">>] >>]

(* ---------------------------------------------------------------------- *)
(* Gates of the call-tool handler                                          *)
(* ---------------------------------------------------------------------- *)
Truthy(args) == args.tag = "object"

IsSelect(sql) == startsWith(toLowerCase(trim(sql)), SELECT)

CallToolGateArgsFirst(name, args) ==
  IF ~Truthy(args) \/ args.sqlType # "string" THEN "InvalidParams"
  ELSE IF name # "mysql_query" THEN "MethodNotFound"
  ELSE IF ~IsSelect(args.sqlVal) THEN "InvalidRequest"
  ELSE "pass"

CallToolGate(name, args) ==
  IF name # "mysql_query" THEN "MethodNotFound"
  ELSE IF ~Truthy(args) \/ args.sqlType # "string" THEN "InvalidParams"
  ELSE IF ~IsSelect(args.sqlVal) THEN "InvalidRequest"
  ELSE "pass"

(* ---------------------------------------------------------------------- *)
(* Requests and connections                                                *)
(* ---------------------------------------------------------------------- *)
IdleReq ==
  [kind |-> "none", name |-> "", args |-> NoArgs, uri |-> NoUri,
   pc |-> "idle", conn |-> 0, log |-> <<>>, acquired |-> 0, released |-> 0,
   rollbacks |-> 0, err |-> "", result |-> NoResult]

\* session: the statements sent on the connection since it was handed out
FreshConn == [owner |-> 0, readOnly |-> FALSE, txOpen |-> FALSE, session |-> <<>>]

InitReq == req = [r \in Requests |-> IdleReq]
InitConn == conn = [c \in Conns |-> FreshConn]

(* ---------------------------------------------------------------------- *)
(* Pool: getConnection and release                                         *)
(* ---------------------------------------------------------------------- *)
ReleaseLeak(cs, c) == cs

Release(cs, c) == [cs EXCEPT ![c].owner = 0, ![c].session = <<>>]

\* first statement after the connection is obtained
FirstStep(kind) == IF kind = "call" THEN "setReadOnly" ELSE "execute"

\* how a handler answers an error thrown by its query function
HandlerError(kind, e) == IF kind = "call" THEN ToolError(e) ELSE Thrown(e)

GetConnection(r, c) ==
  /\ req[r].pc = "getConnection"
  /\ conn[c].owner = 0
  /\ conn' = [conn EXCEPT ![c].owner = r]
  /\ req' = [req EXCEPT ![r].conn = c, ![r].acquired = @ + 1,
                        ![r].pc = FirstStep(req[r].kind)]
  /\ UNCHANGED <<env, boot, sig>>

\* the pool fails to open a connection; a request queued behind a full pool
\* only waits
GetConnectionFails(r) ==
  /\ req[r].pc = "getConnection"
  /\ \E c \in Conns : conn[c].owner = 0
  /\ req' = [req EXCEPT ![r].pc = "done", ![r].err = "ER_GET_CONNECTION",
                        ![r].result = HandlerError(req[r].kind, "ER_GET_CONNECTION")]
  /\ UNCHANGED <<conn, env, boot, sig>>

(* ---------------------------------------------------------------------- *)
(* executeQuery and the resource handlers                                  *)
(* ---------------------------------------------------------------------- *)
ListResources(r) ==
  /\ req[r].pc = "idle"
  /\ req' = [req EXCEPT ![r] = [IdleReq EXCEPT !.kind = "list", !.pc = "getConnection"]]
  /\ UNCHANGED <<conn, env, boot, sig>>

\* pathComponents.pop() twice: the last segment and the one before it
SchemaSegment(path) == path[Len(path)]
TableSegment(path) == IF Len(path) >= 2 THEN path[Len(path) - 1] ELSE "undefined"

ReadResource(r, uri) ==
  /\ req[r].pc = "idle"
  /\ LET q == [IdleReq EXCEPT !.kind = "read", !.uri = uri]
     IN  req' = [req EXCEPT ![r] =
           IF ~uri.valid
             THEN [q EXCEPT !.pc = "done", !.err = "ERR_INVALID_URL",
                            !.result = Thrown("ERR_INVALID_URL")]
           ELSE IF SchemaSegment(uri.path) # "schema"
             THEN [q EXCEPT !.pc = "done", !.err = "Invalid resource URI",
                            !.result = Thrown("Invalid resource URI")]
           ELSE [q EXCEPT !.pc = "getConnection"]]
  /\ UNCHANGED <<conn, env, boot, sig>>

DirectStatement(q) ==
  IF q.kind = "list"
    THEN [text |-> ListTablesSql, params |-> <<MYSQL_DB>>]
    ELSE [text |-> ListColumnsSql, params |-> <<MYSQL_DB, TableSegment(q.uri.path)>>]

\* connection.execute(sql, params) settles; finally releases; the handler
\* answers or rethrows
DirectExecute(r, ok) ==
  /\ req[r].kind \in {"list", "read"}
  /\ req[r].pc = "execute"
  /\ LET c == req[r].conn
         st == DirectStatement(req[r])
         entry == [text |-> st.text, params |-> st.params,
                   ok |-> ok, via |-> "executeQuery"]
         cs == [conn EXCEPT ![c].session = Append(@, [text |-> st.text, ok |-> ok])]
     IN  /\ conn' = Release(cs, c)
         /\ req' = [req EXCEPT ![r].log = Append(@, entry),
                               ![r].released = @ + 1,
                               ![r].conn = 0,
                               ![r].pc = "done",
                               ![r].err = IF ok THEN "" ELSE "ER_QUERY",
                               ![r].result = IF ok THEN ResourceResponse
                                             ELSE Thrown("ER_QUERY")]
  /\ UNCHANGED <<env, boot, sig>>

(* ---------------------------------------------------------------------- *)
(* executeReadOnlyQuery and the call-tool handler                          *)
(* ---------------------------------------------------------------------- *)
CallTool(r, name, args) ==
  /\ req[r].pc = "idle"
  /\ LET q == [IdleReq EXCEPT !.kind = "call", !.name = name, !.args = args]
         g == CallToolGate(name, args)
     IN  req' = [req EXCEPT ![r] =
           IF g = "pass" THEN [q EXCEPT !.pc = "getConnection"]
           ELSE [q EXCEPT !.pc = "done", !.err = g, !.result = McpError(g)]]
  /\ UNCHANGED <<conn, env, boot, sig>>

\* a failing SET READ ONLY is swallowed
ReadOnlyFlowSwallow(step, ok) ==
  CASE step = "setReadOnly" -> "begin"
    [] step = "begin" /\ ok -> "execute"
    [] step = "execute" /\ ok -> "rollback"
    [] step = "rollback" /\ ok -> "setReadWrite"
    [] step = "setReadWrite" /\ ok -> "return"
    [] step = "catchRollback" -> "throw"
    [] OTHER -> "catchRollback"

\* try / catch / finally of executeReadOnlyQuery: the step that follows
\* `step` when it settles with `ok`
ReadOnlyFlow(step, ok) ==
  CASE step = "setReadOnly" /\ ok -> "begin"
    [] step = "begin" /\ ok -> "execute"
    [] step = "execute" /\ ok -> "rollback"
    [] step = "rollback" /\ ok -> "setReadWrite"
    [] step = "setReadWrite" /\ ok -> "return"
    [] step = "catchRollback" -> "throw"
    [] OTHER -> "catchRollback"

\* what a statement that succeeded does to the session
Effect(step, k) ==
  CASE step = "setReadOnly" -> [k EXCEPT !.readOnly = TRUE]
    [] step = "begin" -> [k EXCEPT !.txOpen = TRUE]
    [] step \in {"rollback", "catchRollback"} -> [k EXCEPT !.txOpen = FALSE]
    [] step = "setReadWrite" -> [k EXCEPT !.readOnly = FALSE]
    [] OTHER -> k

ReadOnlyAwait(r, step, text, errName, ok) ==
  /\ req[r].kind = "call"
  /\ req[r].pc = step
  /\ LET q == req[r]
         c == q.conn
         next == ReadOnlyFlow(step, ok)
         entry == [text |-> text, params |-> <<>>, ok |-> ok,
                   via |-> "executeReadOnlyQuery"]
         q1 == [q EXCEPT !.log = Append(@, entry),
                         !.rollbacks = @ + (IF text = RollbackSql THEN 1 ELSE 0)]
         sent == [conn EXCEPT ![c].session = Append(@, [text |-> text, ok |-> ok])]
         cs == [sent EXCEPT ![c] = IF ok THEN Effect(step, @) ELSE @]
         e == IF ok THEN q.err ELSE errName
     IN  /\ conn' = IF next \in {"return", "throw"} THEN Release(cs, c) ELSE cs
         /\ req' = [req EXCEPT ![r] =
              CASE next = "return" ->
                     [q1 EXCEPT !.pc = "done", !.released = @ + 1, !.conn = 0,
                                !.result = ToolSuccess]
                [] next = "throw" ->
                     [q1 EXCEPT !.pc = "done", !.released = @ + 1, !.conn = 0,
                                !.err = e, !.result = ToolError(e)]
                [] OTHER -> [q1 EXCEPT !.pc = next, !.err = e]]
  /\ UNCHANGED <<env, boot, sig>>

SetReadOnly(r, ok) ==
  ReadOnlyAwait(r, "setReadOnly", SetReadOnlySql, "ER_SET_READ_ONLY", ok)

BeginTransaction(r, ok) ==
  ReadOnlyAwait(r, "begin", BeginSql, "ER_BEGIN", ok)

ExecuteUserSql(r, ok) ==
  ReadOnlyAwait(r, "execute", req[r].args.sqlVal, "ER_QUERY", ok)

Rollback(r, ok) ==
  ReadOnlyAwait(r, "rollback", RollbackSql, "ER_ROLLBACK", ok)

SetReadWrite(r, ok) ==
  ReadOnlyAwait(r, "setReadWrite", SetReadWriteSql, "ER_SET_READ_WRITE", ok)

CatchRollback(r, ok) ==
  ReadOnlyAwait(r, "catchRollback", RollbackSql, "ER_ROLLBACK", ok)

\* the response has been written to the transport; the slot serves the next
\* request
Complete(r) ==
  /\ req[r].pc = "done"
  /\ req' = [req EXCEPT ![r] = IdleReq]
  /\ UNCHANGED <<conn, env, boot, sig>>

(* ---------------------------------------------------------------------- *)
(* Startup: environment validation, constructor, run                       *)
(* ---------------------------------------------------------------------- *)
Unset == [set |-> FALSE, val |-> <<>>]
Val(s) == [set |-> TRUE, val |-> s]

\* !v for a value that is a string or undefined
Falsy(v) == ~v.set \/ v.val = <<>>

Digits == {"0", "1", "2", "3", "4", "5", "6", "7", "8", "9"}

DigitVal(c) ==
  CASE c = "0" -> 0 [] c = "1" -> 1 [] c = "2" -> 2 [] c = "3" -> 3
    [] c = "4" -> 4 [] c = "5" -> 5 [] c = "6" -> 6 [] c = "7" -> 7
    [] c = "8" -> 8 [] c = "9" -> 9

RECURSIVE DecValue(_)
DecValue(s) ==
  IF s = <<>> THEN 0
  ELSE 10 * DecValue(SubSeq(s, 1, Len(s) - 1)) + DigitVal(s[Len(s)])

NaN == [nan |-> TRUE, n |-> 0]

\* parseInt(s, 10) on strings of digits and letters: the longest prefix of
\* digits, NaN when it is empty
parseInt(s) ==
  LET ends == {k \in 0..Len(s) : \A i \in 1..k : s[i] \in Digits}
      n == CHOOSE k \in ends : \A m \in ends : m <= k
  IN  IF n = 0 THEN NaN ELSE [nan |-> FALSE, n |-> DecValue(SubSeq(s, 1, n))]

StrVals == {Unset, Val(<<>>), Val(<<"x">>)}
PortVals == {Unset, Val(<<>>), Val(<<"3", "3", "0", "6">>), Val(<<"8", "x">>)}
LimitVals == {Unset, Val(<<"5">>), Val(<<"x">>)}

EnvInputs ==
  [MYSQL_HOST : StrVals, MYSQL_PORT : PortVals, MYSQL_USER : StrVals,
   MYSQL_PASS : StrVals, MYSQL_DB : StrVals, MYSQL_SOCKET : StrVals,
   MYSQL_POOL_LIMIT : LimitVals]

\* MYSQL_POOL_LIMIT = '10' unless the variable is defined
PoolLimitText(e) ==
  IF e.MYSQL_POOL_LIMIT.set THEN e.MYSQL_POOL_LIMIT.val ELSE <<"1", "0">>

\* the addressing check accepts a lone host or a lone port
EnvErrorLoneHost(e) ==
  IF Falsy(e.MYSQL_USER) THEN "MYSQL_USER environment variable is required"
  ELSE IF Falsy(e.MYSQL_PASS) THEN "MYSQL_PASS environment variable is required"
  ELSE IF Falsy(e.MYSQL_DB) THEN "MYSQL_DB environment variable is required"
  ELSE IF Falsy(e.MYSQL_SOCKET) /\ (Falsy(e.MYSQL_HOST) /\ Falsy(e.MYSQL_PORT))
    THEN "Either MYSQL_SOCKET or both MYSQL_HOST and MYSQL_PORT environment variables are required"
  ELSE ""

\* the message of the Error thrown while the module loads, "" when none is
EnvError(e) ==
  IF Falsy(e.MYSQL_USER) THEN "MYSQL_USER environment variable is required"
  ELSE IF Falsy(e.MYSQL_PASS) THEN "MYSQL_PASS environment variable is required"
  ELSE IF Falsy(e.MYSQL_DB) THEN "MYSQL_DB environment variable is required"
  ELSE IF Falsy(e.MYSQL_SOCKET) /\ (Falsy(e.MYSQL_HOST) \/ Falsy(e.MYSQL_PORT))
    THEN "Either MYSQL_SOCKET or both MYSQL_HOST and MYSQL_PORT environment variables are required"
  ELSE ""

NoPort == [set |-> FALSE, nan |-> FALSE, n |-> 0]

NoConfig ==
  [user |-> Unset, password |-> Unset, database |-> Unset,
   connectionLimit |-> NaN, socketPath |-> Unset, host |-> Unset,
   port |-> NoPort]

PoolConfig(e) ==
  LET base == [NoConfig EXCEPT !.user = e.MYSQL_USER,
                               !.password = e.MYSQL_PASS,
                               !.database = e.MYSQL_DB,
                               !.connectionLimit = parseInt(PoolLimitText(e))]
  IN  IF ~Falsy(e.MYSQL_SOCKET)
        THEN [base EXCEPT !.socketPath = e.MYSQL_SOCKET]
        ELSE [base EXCEPT !.host = e.MYSQL_HOST,
                          !.port = [set |-> TRUE,
                                    nan |-> parseInt(e.MYSQL_PORT.val).nan,
                                    n |-> parseInt(e.MYSQL_PORT.val).n]]

BootLoad ==
  [pc |-> "load", error |-> "", poolCreated |-> FALSE, config |-> NoConfig,
   handlers |-> FALSE, served |-> 0, attempts |-> 0]

\* lines 35-47 run when the module is loaded; a throw ends the process
ValidateEnv ==
  /\ boot.pc = "load"
  /\ boot' = IF EnvError(env) # ""
               THEN [boot EXCEPT !.pc = "failed", !.error = EnvError(env)]
               ELSE [boot EXCEPT !.pc = "validated"]
  /\ UNCHANGED <<req, conn, env, sig>>

Constructor ==
  /\ boot.pc = "validated"
  /\ boot' = [boot EXCEPT !.pc = "constructed", !.poolCreated = TRUE,
                          !.config = PoolConfig(env), !.handlers = TRUE]
  /\ UNCHANGED <<req, conn, env, sig>>

Run ==
  /\ boot.pc = "constructed"
  /\ boot' = [boot EXCEPT !.pc = "running"]
  /\ UNCHANGED <<req, conn, env, sig>>

\* a request reaches a registered handler; one that needs the database makes
\* the pool open a connection
ServeRequest(db) ==
  /\ boot.pc = "running"
  /\ boot.handlers
  /\ boot.served < MaxServed
  /\ boot' = [boot EXCEPT !.served = @ + 1,
                          !.attempts = @ + (IF db /\ boot.poolCreated THEN 1 ELSE 0)]
  /\ UNCHANGED <<req, conn, env, sig>>

(* ---------------------------------------------------------------------- *)
(* Shutdown: SIGINT and SIGTERM handlers                                   *)
(* ---------------------------------------------------------------------- *)
Signals == {"SIGINT", "SIGTERM"}

SigIdle == [handlers |-> <<>>, endCalls |-> 0, process |-> "running"]

\* the handler runs shutdown(signal) up to its await of pool.end()
SignalArrives(s) ==
  /\ sig.process = "running"
  /\ Len(sig.handlers) < MaxSignals
  /\ sig' = [sig EXCEPT !.handlers = Append(@, [signal |-> s, state |-> "awaitEnd"]),
                        !.endCalls = @ + 1]
  /\ UNCHANGED <<req, conn, env, boot>>

\* the promise of handler k's pool.end() resolves: process.exit(0)
EndResolves(k) ==
  /\ sig.process = "running"
  /\ k \in 1..Len(sig.handlers)
  /\ sig.handlers[k].state = "awaitEnd"
  /\ sig' = [sig EXCEPT !.handlers[k].state = "resolved", !.process = "exit0"]
  /\ UNCHANGED <<req, conn, env, boot>>

\* the promise rejects: the handler throws before process.exit; the runtime
\* either ends the process on the unhandled rejection or only warns
EndRejects(k, policy) ==
  /\ sig.process = "running"
  /\ k \in 1..Len(sig.handlers)
  /\ sig.handlers[k].state = "awaitEnd"
  /\ sig' = [sig EXCEPT !.handlers[k].state = "rejected",
                        !.process = IF policy = "throw" THEN "crashed" ELSE @]
  /\ UNCHANGED <<req, conn, env, boot>>

(* ---------------------------------------------------------------------- *)
(* Specifications                                                          *)
(* ---------------------------------------------------------------------- *)
\* the environment the request handlers run under
ServingEnv ==
  [MYSQL_HOST |-> Unset, MYSQL_PORT |-> Unset, MYSQL_USER |-> Val(<<"x">>),
   MYSQL_PASS |-> Val(<<"x">>), MYSQL_DB |-> Val(<<"d", "b">>),
   MYSQL_SOCKET |-> Val(<<"x">>), MYSQL_POOL_LIMIT |-> Unset]

BootRunning ==
  [BootLoad EXCEPT !.pc = "running", !.poolCreated = TRUE, !.handlers = TRUE,
                   !.config = [PoolConfig(ServingEnv) EXCEPT
                                 !.connectionLimit = [nan |-> FALSE, n |-> PoolLimit]]]

Init ==
  /\ InitReq
  /\ InitConn
  /\ env = ServingEnv
  /\ boot = BootRunning
  /\ sig = SigIdle

Next ==
  \/ \E r \in Requests : ListResources(r)
  \/ \E r \in Requests, u \in UriInputs : ReadResource(r, u)
  \/ \E r \in Requests, i \in CallInputs : CallTool(r, i.name, i.args)
  \/ \E r \in Requests, c \in Conns : GetConnection(r, c)
  \/ \E r \in Requests : GetConnectionFails(r)
  \/ \E r \in Requests, ok \in BOOLEAN : DirectExecute(r, ok)
  \/ \E r \in Requests, ok \in BOOLEAN : SetReadOnly(r, ok)
  \/ \E r \in Requests, ok \in BOOLEAN : BeginTransaction(r, ok)
  \/ \E r \in Requests, ok \in BOOLEAN : ExecuteUserSql(r, ok)
  \/ \E r \in Requests, ok \in BOOLEAN : Rollback(r, ok)
  \/ \E r \in Requests, ok \in BOOLEAN : SetReadWrite(r, ok)
  \/ \E r \in Requests, ok \in BOOLEAN : CatchRollback(r, ok)
  \/ \E r \in Requests : Complete(r)

Spec == Init /\ [][Next]_vars

InitStartup ==
  /\ InitReq
  /\ InitConn
  /\ env \in EnvInputs
  /\ boot = BootLoad
  /\ sig = SigIdle

NextStartup ==
  \/ ValidateEnv
  \/ Constructor
  \/ Run
  \/ \E db \in BOOLEAN : ServeRequest(db)

SpecStartup == InitStartup /\ [][NextStartup]_vars

\* the call-tool handler alone, one request at a time, over all the inputs
NextCall ==
  \/ \E n \in NameInputs, a \in ArgInputs : CallTool(1, n, a)
  \/ \E c \in Conns : GetConnection(1, c)
  \/ GetConnectionFails(1)
  \/ \E ok \in BOOLEAN : SetReadOnly(1, ok)
  \/ \E ok \in BOOLEAN : BeginTransaction(1, ok)
  \/ \E ok \in BOOLEAN : ExecuteUserSql(1, ok)
  \/ \E ok \in BOOLEAN : Rollback(1, ok)
  \/ \E ok \in BOOLEAN : SetReadWrite(1, ok)
  \/ \E ok \in BOOLEAN : CatchRollback(1, ok)
  \/ Complete(1)

SpecCall == Init /\ [][NextCall]_vars

NextShutdown ==
  \/ \E s \in Signals : SignalArrives(s)
  \/ \E k \in 1..MaxSignals : EndResolves(k)
  \/ \E k \in 1..MaxSignals, policy \in {"throw", "warn"} : EndRejects(k, policy)

SpecShutdown == Init /\ [][NextShutdown]_vars

(* ---------------------------------------------------------------------- *)
(* Properties                                                              *)
(* ---------------------------------------------------------------------- *)
\* "starts with select, case-insensitive, surrounding whitespace ignored",
\* stated on the characters of the text
SelectLetters ==
  << {"s", "S"}, {"e", "E"}, {"l", "L"}, {"e", "E"}, {"c", "C"}, {"t", "T"} >>

LeadingSelect(s) ==
  \E i \in 0..Len(s) :
    /\ \A j \in 1..i : s[j] \in WhiteSpace
    /\ Len(s) >= i + 6
    /\ \A k \in 1..6 : s[i + k] \in SelectLetters[k]

NameOk(q) == q.name = "mysql_query"
ArgsOk(q) == q.args.tag = "object" /\ q.args.sqlType = "string"
GatesPass(q) == NameOk(q) /\ ArgsOk(q) /\ LeadingSelect(q.args.sqlVal)

AdapterStatements ==
  {SetReadOnlySql, SetReadWriteSql, BeginSql, RollbackSql, ListTablesSql, ListColumnsSql}

\* the request reached executeQuery or executeReadOnlyQuery
QueryIssued(q) ==
  CASE q.kind = "list" -> TRUE
    [] q.kind = "read" -> q.uri.valid /\ q.uri.path[Len(q.uri.path)] = "schema"
    [] q.kind = "call" -> GatesPass(q)
    [] OTHER -> FALSE

StepFailed(q) == q.acquired = 0 \/ \E i \in 1..Len(q.log) : ~q.log[i].ok

Held(r) == {c \in Conns : conn[c].owner = r}

\* C1: every call of executeReadOnlyQuery that obtained a connection invokes
\* rollback exactly once, leaves no transaction open on the connection and
\* releases the connection before it returns or throws.
C1_RollbackExactlyOnce ==
  /\ \A r \in Requests :
       (req[r].kind = "call" /\ req[r].pc = "done" /\ req[r].acquired = 1)
         => (req[r].rollbacks = 1 /\ req[r].released = 1 /\ Held(r) = {})
  /\ \A c \in Conns : conn[c].owner = 0 => ~conn[c].txOpen

\* C2: a mysql_query call whose sql is a string that does not start with
\* "select" (trimmed, lowercased) is answered with an invalid-request fault
\* and does no database work: no connection acquired, no statement sent.
C2_NonSelectRejected ==
  \A r \in Requests :
    (req[r].kind = "call" /\ NameOk(req[r]) /\ ArgsOk(req[r])
       /\ ~LeadingSelect(req[r].args.sqlVal))
      => /\ req[r].pc = "done"
         /\ req[r].result.fault = "InvalidRequest"
         /\ req[r].acquired = 0
         /\ req[r].log = <<>>
         /\ Held(r) = {}

C2_Witness ==
  \E r \in Requests :
    /\ req[r].kind = "call" /\ NameOk(req[r])
    /\ req[r].args.sqlVal = <<"d", "e", "l", "e", "t", "e">>
    /\ req[r].args.sqlType = "string"
    /\ req[r].result.fault = "InvalidRequest"
    /\ \E c \in Conns : conn[c].owner = 0

\* C3: once the three gates are passed, any failure on the read-only query
\* path (pool acquisition, SET READ ONLY, BEGIN, the statement, ROLLBACK,
\* SET READ WRITE, the rollback of the error path) is answered as a tool
\* response with isError and the error text in one text block, never as a
\* protocol fault.
C3_QueryFailureIsToolError ==
  \A r \in Requests :
    (req[r].kind = "call" /\ req[r].pc = "done" /\ GatesPass(req[r])
       /\ StepFailed(req[r]))
      => /\ req[r].result.fault = "none"
         /\ req[r].result.isError
         /\ Len(req[r].result.content) = 1
         /\ req[r].result.content[1].type = "text"
         /\ req[r].result.content[1].text = <<"MySQL query error: ", req[r].err>>
         /\ req[r].err \in {"ER_GET_CONNECTION", "ER_SET_READ_ONLY", "ER_BEGIN",
                            "ER_QUERY", "ER_ROLLBACK", "ER_SET_READ_WRITE"}

\* the statement failed and then the rollback of the error path failed too
C3_Witness ==
  \E r \in Requests :
    /\ req[r].kind = "call" /\ req[r].pc = "done"
    /\ Len(req[r].log) = 4
    /\ req[r].log[3].text = req[r].args.sqlVal /\ ~req[r].log[3].ok
    /\ req[r].log[4].text = RollbackSql /\ ~req[r].log[4].ok
    /\ req[r].result.isError

\* C6: on every exit path of executeReadOnlyQuery the session is back in
\* read-write mode when the connection is released, so every idle pooled
\* connection is in read-write mode.
C6_IdleConnectionsReadWrite ==
  \A c \in Conns : conn[c].owner = 0 => ~conn[c].readOnly

\* C7: a call-tool request is decided by the first failing gate in the order
\* name, arguments, SQL prefix, and the read-only query path is entered
\* exactly when all three pass.
C7_GateOrder ==
  \A r \in Requests :
    req[r].kind = "call" =>
      LET q == req[r]
          rejected == q.pc = "done" /\ q.acquired = 0 /\ q.log = <<>>
          entered == q.pc # "done" \/ q.result.fault = "none"
      IN  /\ ~NameOk(q) => (rejected /\ q.result.fault = "MethodNotFound")
          /\ (NameOk(q) /\ ~ArgsOk(q)) => (rejected /\ q.result.fault = "InvalidParams")
          /\ (NameOk(q) /\ ArgsOk(q) /\ ~LeadingSelect(q.args.sqlVal))
               => (rejected /\ q.result.fault = "InvalidRequest")
          /\ entered <=> GatesPass(q)

\* an unknown tool name together with missing arguments
C7_Witness ==
  \E r \in Requests :
    /\ req[r].kind = "call" /\ req[r].pc = "done"
    /\ req[r].name = "other_tool" /\ req[r].args.tag = "undefined"
    /\ req[r].result.fault = "MethodNotFound"

\* C8: user-supplied SQL is sent only by executeReadOnlyQuery, only after
\* SET SESSION TRANSACTION READ ONLY and then BEGIN succeeded on the same
\* connection in the same call; it is not sent when either failed; the
\* direct query path sends adapter-written statements only.
C8_UserSqlOnlyInReadOnlyTx ==
  /\ \A r \in Requests :
       \A i \in 1..Len(req[r].log) :
         LET log == req[r].log
             e == log[i]
         IN  /\ e.via = "executeQuery" => e.text \in {ListTablesSql, ListColumnsSql}
             /\ e.text \notin AdapterStatements =>
                  /\ e.via = "executeReadOnlyQuery"
                  /\ e.text = req[r].args.sqlVal
                  /\ \E j \in 1..(i - 1), k \in 1..(i - 1) :
                       /\ j < k
                       /\ log[j].text = SetReadOnlySql /\ log[j].ok
                       /\ log[k].text = BeginSql /\ log[k].ok
                  /\ \A j \in 1..(i - 1) :
                       log[j].text \in {SetReadOnlySql, BeginSql} => log[j].ok
  /\ \A c \in Conns :
       \A i \in 1..Len(conn[c].session) :
         LET ses == conn[c].session
         IN  ses[i].text \notin AdapterStatements =>
               /\ conn[c].owner # 0
               /\ req[conn[c].owner].kind = "call"
               /\ ses[i].text = req[conn[c].owner].args.sqlVal
               /\ \E j \in 1..(i - 1), k \in 1..(i - 1) :
                    /\ j < k
                    /\ ses[j] = [text |-> SetReadOnlySql, ok |-> TRUE]
                    /\ ses[k] = [text |-> BeginSql, ok |-> TRUE]

C8_Witness ==
  \E r \in Requests :
    /\ Len(req[r].log) >= 3
    /\ req[r].log[3].text = req[r].args.sqlVal
    /\ req[r].log[3].text \notin AdapterStatements
    /\ req[r].log[3].via = "executeReadOnlyQuery"
    /\ req[r].conn # 0
    /\ Len(conn[req[r].conn].session) = 3
    /\ conn[req[r].conn].session[3].text = req[r].args.sqlVal

\* C10 as stated: every logical query acquires exactly one connection and
\* releases it exactly once before its request completes, on every path.
C10_ExactlyOneAcquired ==
  \A r \in Requests :
    (req[r].pc = "done" /\ QueryIssued(req[r]))
      => (req[r].acquired = 1 /\ req[r].released = 1)

\* C10 amended: a logical query acquires at most one connection, exactly one
\* unless the pool acquisition itself fails, and releases what it acquired
\* exactly once before its request completes; no request holds more than one
\* connection, the requests holding one never outnumber the pool limit, and
\* with no request in flight every pooled connection is free.
C10_ConnectionDiscipline ==
  /\ \A r \in Requests :
       /\ req[r].acquired <= 1
       /\ req[r].released <= req[r].acquired
       /\ Cardinality(Held(r)) = req[r].acquired - req[r].released
       /\ Held(r) = (IF req[r].conn = 0 THEN {} ELSE {req[r].conn})
       /\ req[r].pc \in {"idle", "getConnection", "done"} => Held(r) = {}
       /\ req[r].pc \notin {"idle", "getConnection", "done"} => Cardinality(Held(r)) = 1
       /\ (req[r].pc = "done" /\ QueryIssued(req[r])) =>
            \/ req[r].acquired = 1 /\ req[r].released = 1
            \/ /\ req[r].acquired = 0 /\ req[r].released = 0
               /\ req[r].err = "ER_GET_CONNECTION"
       /\ (req[r].pc = "done" /\ ~QueryIssued(req[r])) => req[r].acquired = 0
  /\ Cardinality({r \in Requests : req[r].acquired > req[r].released}) <= PoolLimit
  /\ \A c \in Conns : conn[c].owner # 0 => req[conn[c].owner].conn = c
  /\ (\A r \in Requests : req[r].pc \in {"idle", "done"})
       => \A c \in Conns : conn[c].owner = 0

\* one request has released its connection and another holds one
C10_Witness ==
  \E r1 \in Requests, r2 \in Requests :
    /\ r1 # r2
    /\ req[r1].pc = "done" /\ req[r1].acquired = 1 /\ req[r1].released = 1
    /\ req[r2].pc \notin {"idle", "getConnection", "done"}
    /\ Cardinality(Held(r2)) = 1

\* C4: a configuration that lacks MYSQL_USER, MYSQL_PASS or MYSQL_DB, or has
\* neither MYSQL_SOCKET nor both MYSQL_HOST and MYSQL_PORT, fails at startup
\* before the pool is created, before any connection attempt and before any
\* handler serves a request; any other configuration gets a pool with exactly
\* one addressing mode.  A variable is lacking when it is unset or empty.
Lacks(v) == ~env[v].set \/ env[v].val = <<>>

BadConfig ==
  \/ Lacks("MYSQL_USER") \/ Lacks("MYSQL_PASS") \/ Lacks("MYSQL_DB")
  \/ (Lacks("MYSQL_SOCKET") /\ (Lacks("MYSQL_HOST") \/ Lacks("MYSQL_PORT")))

SocketMode(cfg) == cfg.socketPath.set /\ ~cfg.host.set /\ ~cfg.port.set
HostPortMode(cfg) == ~cfg.socketPath.set /\ cfg.host.set /\ cfg.port.set

C4_StartupValidation ==
  /\ BadConfig =>
       /\ boot.pc \in {"load", "failed"}
       /\ ~boot.poolCreated /\ ~boot.handlers
       /\ boot.attempts = 0 /\ boot.served = 0
  /\ ~BadConfig =>
       /\ boot.pc # "failed"
       /\ boot.pc \in {"constructed", "running"} =>
            /\ boot.poolCreated
            /\ SocketMode(boot.config) # HostPortMode(boot.config)
            /\ SocketMode(boot.config) <=> ~Lacks("MYSQL_SOCKET")
            /\ boot.config.socketPath.set => boot.config.socketPath.val # <<>>
            /\ boot.config.host.set => boot.config.host.val # <<>>

\* only MYSQL_HOST of the host and port pair is supplied, and startup failed
C4_Witness ==
  /\ ~Lacks("MYSQL_USER") /\ ~Lacks("MYSQL_PASS") /\ ~Lacks("MYSQL_DB")
  /\ Lacks("MYSQL_SOCKET") /\ ~Lacks("MYSQL_HOST") /\ Lacks("MYSQL_PORT")
  /\ boot.pc = "failed"
  /\ boot.error # ""

\* C5: for any sequence of SIGINT and SIGTERM deliveries the pool's close
\* operation is invoked at most once.
C5_PoolClosedAtMostOnce == sig.endCalls <= 1

\* C9: the process exits only after the closing of the pool has completed:
\* no exit while a pool close started by a signal handler is in progress.
C9_ExitAfterCloseCompleted ==
  sig.process # "running" =>
    \A k \in 1..Len(sig.handlers) : sig.handlers[k].state # "awaitEnd"

====
